---- MODULE Spec2Model ----
(***************************************************************************)
(* Brand-Country Analysis Dashboard (src/brand_country_analysis.py).       *)
(*                                                                         *)
(* The script is a Streamlit page: every interaction reruns it from top to *)
(* bottom over the cached result of load_data.  A rerun is one action; the *)
(* pair-counting loop of the Brand Co-occurrence branch is stepped order   *)
(* by order.                                                               *)
(*                                                                         *)
(* A brands string, and each brand taken from it, is a sequence of         *)
(* one-character strings, so that split and strip are computed on          *)
(* characters.  A float ratio is a record [num, den] in lowest terms.      *)
(* None is the empty sequence.                                             *)
(***************************************************************************)
EXTENDS Integers, Sequences, FiniteSets, TLC

\* ---------------------------------------------------------------- bounds
\* Total number of comma-separated entries in the brands column of an
\* exhaustively enumerated upload.
MaxEntries == 3
\* Orders of the wide upload, which holds one more brand than orders, and
\* how many of them hold two brands.
WideRows == 20
PairRows == 2
\* Orders of the star upload, each pairing brand A with another brand.
StarRows == 6

\* ------------------------------------------------------ program constants
\* st.slider("Select top N ...", 5, 20, 10)
SliderMin == 5
SliderMax == 20
SliderDefault == 10
\* st.slider("Select top N brands", 5, 50, 20) of Co-occurrence by Brand
BrandSliderMax == 50
BrandSliderDefault == 20
\* value_counts().head(20) of Brand Co-occurrence
TopBrandsLimit == 20

None == <<>>

\* ------------------------------------------------------------ characters
Letters ==
    <<"A", "B", "C", "D", "E", "F", "G", "H", "I", "J", "K", "L", "M",
      "N", "O", "P", "Q", "R", "S", "T", "U", "V", "W", "X", "Y", "Z">>

\* Code-point order of the characters used.
CharOrder == <<" ", ",">> \o Letters

Ord(c) == CHOOSE i \in DOMAIN CharOrder : CharOrder[i] = c

\* Python's str comparison: lexicographic by code point.
RECURSIVE StrLess(_, _)
StrLess(s, t) ==
    IF t = <<>> THEN FALSE
    ELSE IF s = <<>> THEN TRUE
    ELSE IF Head(s) = Head(t) THEN StrLess(Tail(s), Tail(t))
    ELSE Ord(Head(s)) < Ord(Head(t))

\* str.split(","): one piece more than there are commas, pieces kept as is.
RECURSIVE Split(_)
Split(s) ==
    IF \A i \in DOMAIN s : s[i] # ","
    THEN <<s>>
    ELSE LET i == CHOOSE k \in DOMAIN s :
                      s[k] = "," /\ \A j \in 1..(k - 1) : s[j] # ","
         IN <<SubSeq(s, 1, i - 1)>> \o Split(SubSeq(s, i + 1, Len(s)))

\* str.strip(): the string without its leading and trailing blanks.
RECURSIVE Strip(_)
Strip(s) ==
    IF s = <<>> THEN s
    ELSE IF Head(s) = " " THEN Strip(Tail(s))
    ELSE IF s[Len(s)] = " " THEN Strip(SubSeq(s, 1, Len(s) - 1))
    ELSE s

\* ",".join(pieces)
RECURSIVE Join(_)
Join(pieces) ==
    IF Len(pieces) = 1 THEN pieces[1]
    ELSE pieces[1] \o <<",">> \o Join(Tail(pieces))

\* ----------------------------------------------------------------- lists
Range(s) == {s[i] : i \in DOMAIN s}

\* The members of a list in order of first appearance, each once.
RECURSIVE Unique(_)
Unique(s) ==
    IF s = <<>> THEN <<>>
    ELSE LET init == Unique(SubSeq(s, 1, Len(s) - 1))
             last == s[Len(s)]
         IN IF last \in Range(init) THEN init ELSE Append(init, last)

\* Series.head(n)
HeadN(s, n) == SubSeq(s, 1, IF n < Len(s) THEN n ELSE Len(s))

\* Every listing of a set, each member once.
RECURSIVE Listings(_)
Listings(S) ==
    IF S = {} THEN {<<>>}
    ELSE UNION {{<<x>> \o l : l \in Listings(S \ {x})} : x \in S}

RECURSIVE Concat(_)
Concat(ss) == IF ss = <<>> THEN <<>> ELSE Head(ss) \o Concat(Tail(ss))

RECURSIVE SumSeq(_)
SumSeq(s) == IF s = <<>> THEN 0 ELSE Head(s) + SumSeq(Tail(s))

\* ------------------------------------------------------------- fractions
RECURSIVE Gcd(_, _)
Gcd(a, b) == IF b = 0 THEN a ELSE Gcd(b, a % b)

Frac(n, d) == LET g == Gcd(n, d) IN [num |-> n \div g, den |-> d \div g]

FracGeq(x, y) == x.num * y.den >= y.num * x.den

\* Stable insertion sort of the positions of keys (fractions), descending:
\* positions with equal keys keep their order.  Series.sort_values sorts with
\* numpy's quicksort, an insertion sort on short arrays, and reverses before
\* and after for ascending=False, so ties stay in their original order.  On
\* longer arrays numpy promises no order among ties; the model keeps the
\* original order there too.
RECURSIVE InsertDesc(_, _, _)
InsertDesc(sorted, i, keys) ==
    IF sorted = <<>> THEN <<i>>
    ELSE IF FracGeq(keys[Head(sorted)], keys[i])
         THEN <<Head(sorted)>> \o InsertDesc(Tail(sorted), i, keys)
         ELSE <<i>> \o sorted

RECURSIVE ArgSortDesc(_, _)
ArgSortDesc(n, keys) ==
    IF n = 0 THEN <<>>
    ELSE InsertDesc(ArgSortDesc(n - 1, keys), n, keys)

\* items reordered by descending keys.
SortDesc(items, keys) ==
    LET order == ArgSortDesc(Len(items), keys)
    IN [k \in 1..Len(items) |-> items[order[k]]]

\* ------------------------------------------------------------ load_data
\* list(x) in place of list(set(x)): repeated entries are kept.
ListOfAll(x) == {x}

\* list(set(x)): the distinct members of x, in the iteration order of a set
\* of strings, which is any order (str hashes differ from process to process).
ListOfSet(x) == Listings(Range(x))

\* df["brands"].str.split(",").apply(lambda x: list(set(x)))
BrandLists(brands) == ListOfSet(Split(brands))

\* pd.to_datetime(...).dt.date: the day of a timestamp <<day, hour>>.
ToDate(orderDate) == orderDate[1]

\* The data frames load_data can return for an uploaded file.
RECURSIVE load_data(_)
load_data(file) ==
    IF file = <<>> THEN {<<>>}
    ELSE LET row == file[Len(file)]
         IN {Append(rest, [shipCountryCode |-> row.shipCountryCode,
                           brands |-> l,
                           orderDate |-> ToDate(row.orderDate)]) :
                rest \in load_data(SubSeq(file, 1, Len(file) - 1)),
                l \in BrandLists(row.brands)}

\* ------------------------------------------------------------ pandas
\* df[df["shipCountryCode"] == c]
RowsOf(dfv, c) == SelectSeq(dfv, LAMBDA r : r.shipCountryCode = c)

\* df.explode("brands")["brands"]
Explode(dfv) == Concat([i \in DOMAIN dfv |-> dfv[i].brands])

Count(s, x) == Cardinality({i \in DOMAIN s : s[i] = x})

\* Series.value_counts(): <<label, count>> by descending count; labels are
\* counted in order of first appearance and the sort keeps that order in ties.
value_counts(s) ==
    LET u == Unique(s)
    IN SortDesc([k \in DOMAIN u |-> <<u[k], Count(s, u[k])>>],
                [k \in DOMAIN u |-> Frac(Count(s, u[k]), 1)])

\* Series.value_counts(normalize=True): each count divided by len(s).
value_counts_normalized(s) ==
    LET vc == value_counts(s)
    IN [k \in DOMAIN vc |-> <<vc[k][1], Frac(vc[k][2], Len(s))>>]

Labels(pairs) == [k \in DOMAIN pairs |-> pairs[k][1]]

\* Country codes in ascending order (groupby sorts its keys).
CountryOrder == <<"FR", "US">>

GroupKeys(dfv) ==
    SelectSeq(CountryOrder,
              LAMBDA c : \E i \in DOMAIN dfv : dfv[i].shipCountryCode = c)

\* itertools.combinations(s, 2)
RECURSIVE Combinations2(_)
Combinations2(s) ==
    IF Len(s) < 2 THEN <<>>
    ELSE [j \in 1..(Len(s) - 1) |-> <<s[1], s[j + 1]>>] \o Combinations2(Tail(s))

\* ---------------------------------------------------------- the analyses
\* df["shipCountryCode"].unique().tolist() with "All Countries" in front
available_countries(dfv) ==
    <<"All Countries">> \o Unique([i \in DOMAIN dfv |-> dfv[i].shipCountryCode])

\* The options of the analysis selectbox: adjacent string literals are one
\* string, so the sixth option is the last two names run together.
AnalysisOptions ==
    <<"Brand Popularity",
      "Country Diversity",
      "Brand Penetration",
      "Average Basket Size",
      "Brand Co-occurrence",
      "Co-occurrence by Brand" \o "Brand Exclusivity">>

\* The keys of analysis_explanations.
analysis_explanations ==
    {"Brand Popularity", "Country Diversity", "Brand Penetration",
     "Average Basket Size", "Brand Co-occurrence", "Brand Exclusivity",
     "Co-occurrence by Brand"}

\* df_filtered
CountryFilter(dfv, c) ==
    IF c # "All Countries" THEN RowsOf(dfv, c) ELSE dfv

\* df_filtered.explode("brands")["brands"].value_counts().head(top_n)
BrandPopularity(filtered, n) == HeadN(value_counts(Explode(filtered)), n)

\* groupby("shipCountryCode")["brands"].apply(len(set(...))), sorted, head
CountryDiversity(filtered, n) ==
    LET keys == GroupKeys(filtered)
        div(c) == Cardinality(Range(Explode(RowsOf(filtered, c))))
    IN HeadN(SortDesc([k \in DOMAIN keys |-> <<keys[k], div(keys[k])>>],
                      [k \in DOMAIN keys |-> Frac(div(keys[k]), 1)]), n)

\* explode, groupby country, value_counts(normalize=True), unstack, fillna(0)
BrandPenetration(filtered) ==
    LET cell(c, b) ==
            LET col == Explode(RowsOf(filtered, c))
            IN IF Count(col, b) = 0 THEN Frac(0, 1)
               ELSE Frac(Count(col, b), Len(col))
    IN [c \in Range(GroupKeys(filtered)) |->
            [b \in Range(Explode(filtered)) |-> cell(c, b)]]

\* groupby("shipCountryCode")["brands"].apply(sum(len(set(b)))/len(x)), sorted
AverageBasketSize(filtered, n) ==
    LET keys == GroupKeys(filtered)
        avg(c) ==
            LET rows == RowsOf(filtered, c)
            IN Frac(SumSeq([i \in DOMAIN rows |->
                               Cardinality(Range(rows[i].brands))]),
                    Len(rows))
    IN HeadN(SortDesc([k \in DOMAIN keys |-> <<keys[k], avg(keys[k])>>],
                      [k \in DOMAIN keys |-> avg(keys[k])]), n)

\* The cut taken at the default of the top-N sliders in place of 20.
TopBrandsAtSliderDefault(filtered) ==
    Labels(HeadN(value_counts(Explode(filtered)), SliderDefault))

\* df_exploded["brands"].value_counts().head(20).index.tolist()
TopBrands(filtered) ==
    Labels(HeadN(value_counts(Explode(filtered)), TopBrandsLimit))

\* The orders holding at least one of the top brands.
DfTopBrands(filtered, top) ==
    SelectSeq(filtered,
              LAMBDA r : \E k \in DOMAIN r.brands : r.brands[k] \in Range(top))

\* {brand: {brand: 0 for brand in top_brands} for brand in top_brands}
ZeroDict(top) == [a \in Range(top) |-> [b \in Range(top) |-> 0]]

\* co_occurrence_dict[a][b] += 1; co_occurrence_dict[b][a] += 1
RECURSIVE AddPairs(_, _)
AddPairs(dict, pairs) ==
    IF pairs = <<>> THEN dict
    ELSE LET a == Head(pairs)[1]
             b == Head(pairs)[2]
             d1 == [dict EXCEPT ![a][b] = @ + 1]
             d2 == [d1 EXCEPT ![b][a] = @ + 1]
         IN AddPairs(d2, Tail(pairs))

\* One pass of the loop body over an order's brands_list.
CountOrder(dict, brands_list, top) ==
    LET relevant_brands == SelectSeq(brands_list, LAMBDA b : b \in Range(top))
    IN AddPairs(dict, Combinations2(relevant_brands))

\* The options of the brand selectbox of Co-occurrence by Brand.
BrandOptions(filtered, n) == Labels(HeadN(value_counts(Explode(filtered)), n))

\* Co-occurrence by Brand: co_occurrence_df after sorting.
CoOccurrenceByBrand(filtered, brand, type) ==
    LET df_filtered_brand ==
            SelectSeq(filtered, LAMBDA r : brand \in Range(r.brands))
        keys == SelectSeq(Unique(Explode(filtered)), LAMBDA b : b # brand)
        others == SelectSeq(Explode(df_filtered_brand), LAMBDA b : b # brand)
        kept == SelectSeq(keys, LAMBDA b : Count(others, b) > 0)
        total_co_occurrences == Len(others)
        counts == [k \in DOMAIN kept |-> Frac(Count(others, kept[k]), 1)]
    IN IF type = "Percentage"
       THEN SortDesc([k \in DOMAIN kept |->
                         [Brand |-> kept[k],
                          Count |-> Count(others, kept[k]),
                          Percentage |-> Frac(Count(others, kept[k]) * 100,
                                              total_co_occurrences)]],
                     [k \in DOMAIN kept |->
                         Frac(Count(others, kept[k]) * 100,
                              total_co_occurrences)])
       ELSE SortDesc([k \in DOMAIN kept |->
                         [Brand |-> kept[k],
                          Count |-> Count(others, kept[k])]],
                     counts)

\* The shares of Brand Exclusivity scaled to percent.
BrandExclusivityPercent(filtered, n) ==
    LET single_brand_orders == SelectSeq(filtered, LAMBDA r : Len(r.brands) = 1)
        sole == [i \in DOMAIN single_brand_orders |->
                    single_brand_orders[i].brands[1]]
        vc == HeadN(value_counts(sole), n)
    IN [k \in DOMAIN vc |-> <<vc[k][1], Frac(vc[k][2] * 100, Len(sole))>>]

\* Brand Exclusivity: value_counts(normalize=True).head(top_n) of the sole
\* brands of the single-brand orders.
BrandExclusivity(filtered, n) ==
    LET single_brand_orders == SelectSeq(filtered, LAMBDA r : Len(r.brands) = 1)
        sole == [i \in DOMAIN single_brand_orders |->
                    single_brand_orders[i].brands[1]]
    IN HeadN(value_counts_normalized(sole), n)

\* ------------------------------------------------------------ the uploads
Countries == {"US", "FR"}

\* The entries written in the brands column of the short uploads.
Entries == {<<"A">>, <<" ", "A">>, <<"B">>}

\* The timestamp of the i-th row.
Stamp(i) == <<i, i % 24>>

RowsWith(t) ==
    {[shipCountryCode |-> c, brands |-> Join(es)] :
        c \in Countries, es \in [1..t -> Entries]}

\* Every sequence of rows with at most budget entries in all.
RECURSIVE RowsUpTo(_)
RowsUpTo(budget) ==
    {<<>>} \cup
    UNION {{<<r>> \o rest : r \in RowsWith(t), rest \in RowsUpTo(budget - t)} :
              t \in 1..budget}

Stamped(rows) ==
    [i \in DOMAIN rows |->
        [shipCountryCode |-> rows[i].shipCountryCode,
         brands |-> rows[i].brands,
         orderDate |-> Stamp(i)]]

ShortFiles == {Stamped(rows) : rows \in RowsUpTo(MaxEntries) \ {<<>>}}

\* A long upload of n orders: each of the last k pairs brand A with a new
\* brand, every order before them holds one new brand.
LongFile(n, k) ==
    [i \in 1..n |->
        [shipCountryCode |-> "US",
         brands |-> IF i > n - k
                    THEN <<"A", ",", Letters[i + 1]>>
                    ELSE <<Letters[i + 1]>>,
         orderDate |-> Stamp(i)]]

LongFiles == {LongFile(StarRows, StarRows), LongFile(WideRows, PairRows)}

Files == ShortFiles \cup LongFiles

\* --------------------------------------------------------------- state
VARIABLES
    uploaded_file,          \* the file of the uploader, None before an upload
    df,                     \* load_data(uploaded_file)
    pc,                     \* "no_file", "loop", "done" or "KeyError"
    analysis,               \* the value of the analysis selectbox
    selected_country,
    df_filtered,
    top_n,                  \* the slider of the branch, 0 where it has none
    brand_popularity,
    country_diversity_sorted,
    brand_penetration,
    avg_basket_size_sorted,
    top_brands,
    df_top_brands,
    co_occurrence_dict,
    done_orders,            \* orders of df_top_brands the loop has processed
    selected_brand,
    analysis_type,
    co_occurrence_df,
    brand_exclusivity

vars ==
    <<uploaded_file, df, pc, analysis, selected_country, df_filtered, top_n,
      brand_popularity, country_diversity_sorted, brand_penetration,
      avg_basket_size_sorted, top_brands, df_top_brands, co_occurrence_dict,
      done_orders, selected_brand, analysis_type, co_occurrence_df,
      brand_exclusivity>>

\* The script's names before any branch has run.
Blank ==
    [pc |-> "done", analysis |-> "", selected_country |-> "",
     df_filtered |-> <<>>, top_n |-> 0, brand_popularity |-> <<>>,
     country_diversity_sorted |-> <<>>, brand_penetration |-> <<>>,
     avg_basket_size_sorted |-> <<>>, top_brands |-> <<>>,
     df_top_brands |-> <<>>, co_occurrence_dict |-> <<>>, done_orders |-> 0,
     selected_brand |-> None, analysis_type |-> "", co_occurrence_df |-> <<>>,
     brand_exclusivity |-> <<>>]

\* One rerun of the script body (lines 37-319) over the loaded frame dfv with
\* the widgets at a, c, n, b, t; the Brand Co-occurrence branch stops at the
\* head of its loop.
Script(dfv, a, c, n, b, t) ==
    LET filtered == CountryFilter(dfv, c)
        s == [Blank EXCEPT !.analysis = a, !.selected_country = c,
                           !.df_filtered = filtered]
    IN IF a \notin analysis_explanations
         THEN [s EXCEPT !.pc = "KeyError"]
       ELSE IF a = "Brand Popularity"
         THEN [s EXCEPT !.top_n = n,
                        !.brand_popularity = BrandPopularity(filtered, n)]
       ELSE IF a = "Country Diversity"
         THEN [s EXCEPT !.top_n = n,
                        !.country_diversity_sorted = CountryDiversity(filtered, n)]
       ELSE IF a = "Brand Penetration"
         THEN [s EXCEPT !.brand_penetration = BrandPenetration(filtered)]
       ELSE IF a = "Average Basket Size"
         THEN [s EXCEPT !.top_n = n,
                        !.avg_basket_size_sorted = AverageBasketSize(filtered, n)]
       ELSE IF a = "Brand Co-occurrence"
         THEN LET top == TopBrands(filtered)
              IN [s EXCEPT !.top_brands = top,
                           !.df_top_brands = DfTopBrands(filtered, top),
                           !.co_occurrence_dict = ZeroDict(top),
                           !.pc = IF DfTopBrands(filtered, top) = <<>>
                                  THEN "done" ELSE "loop"]
       ELSE IF a = "Co-occurrence by Brand"
         THEN [s EXCEPT !.top_n = n, !.selected_brand = b,
                        !.analysis_type = t,
                        !.co_occurrence_df = CoOccurrenceByBrand(filtered, b, t)]
       ELSE IF a = "Brand Exclusivity"
         THEN [s EXCEPT !.top_n = n,
                        !.brand_exclusivity = BrandExclusivity(filtered, n)]
       ELSE s

\* The positions a branch's slider is moved to (of SliderMin..SliderMax, or
\* SliderMin..BrandSliderMax in Co-occurrence by Brand); none where the branch
\* draws no slider.
SliderValues(a) ==
    IF a \in {"Brand Popularity", "Country Diversity", "Average Basket Size",
              "Brand Exclusivity"}
      THEN {SliderMin, SliderDefault, SliderMax}
    ELSE IF a = "Co-occurrence by Brand"
      THEN {SliderMin, BrandSliderDefault, BrandSliderMax}
    ELSE {}

\* Where a slider stands when its branch is first drawn.
SliderStart(a) ==
    IF a = "Co-occurrence by Brand" THEN BrandSliderDefault
    ELSE IF SliderValues(a) # {} THEN SliderDefault
    ELSE 0

\* The brands the brand selectbox offers, None where the branch has none.
BrandChoices(dfv, a, c, n) ==
    IF a = "Co-occurrence by Brand"
    THEN Range(BrandOptions(CountryFilter(dfv, c), n))
    ELSE {None}

\* The brand the selectbox shows after a rerun: the one it showed while that
\* is still offered, else its first option (index=0).
ShownBrand(dfv, a, c, n, shown) ==
    IF a # "Co-occurrence by Brand" THEN None
    ELSE IF shown \in BrandChoices(dfv, a, c, n) THEN shown
    ELSE BrandOptions(CountryFilter(dfv, c), n)[1]

\* st.radio(..., ("Percentage", "Total Value")) starts at its first option.
TypeStart(a) == IF a = "Co-occurrence by Brand" THEN "Percentage" ELSE ""

Show(s) ==
    /\ pc' = s.pc
    /\ analysis' = s.analysis
    /\ selected_country' = s.selected_country
    /\ df_filtered' = s.df_filtered
    /\ top_n' = s.top_n
    /\ brand_popularity' = s.brand_popularity
    /\ country_diversity_sorted' = s.country_diversity_sorted
    /\ brand_penetration' = s.brand_penetration
    /\ avg_basket_size_sorted' = s.avg_basket_size_sorted
    /\ top_brands' = s.top_brands
    /\ df_top_brands' = s.df_top_brands
    /\ co_occurrence_dict' = s.co_occurrence_dict
    /\ done_orders' = s.done_orders
    /\ selected_brand' = s.selected_brand
    /\ analysis_type' = s.analysis_type
    /\ co_occurrence_df' = s.co_occurrence_df
    /\ brand_exclusivity' = s.brand_exclusivity

Init ==
    /\ uploaded_file = None
    /\ df = None
    /\ pc = "no_file"
    /\ analysis = Blank.analysis
    /\ selected_country = Blank.selected_country
    /\ df_filtered = Blank.df_filtered
    /\ top_n = Blank.top_n
    /\ brand_popularity = Blank.brand_popularity
    /\ country_diversity_sorted = Blank.country_diversity_sorted
    /\ brand_penetration = Blank.brand_penetration
    /\ avg_basket_size_sorted = Blank.avg_basket_size_sorted
    /\ top_brands = Blank.top_brands
    /\ df_top_brands = Blank.df_top_brands
    /\ co_occurrence_dict = Blank.co_occurrence_dict
    /\ done_orders = Blank.done_orders
    /\ selected_brand = Blank.selected_brand
    /\ analysis_type = Blank.analysis_type
    /\ co_occurrence_df = Blank.co_occurrence_df
    /\ brand_exclusivity = Blank.brand_exclusivity

\* A file is uploaded: load_data runs and the script body runs with every
\* widget at its default.
Upload ==
    /\ pc = "no_file"
    /\ \E file \in Files :
         \E d \in load_data(file) :
            /\ uploaded_file' = file
            /\ df' = d
            /\ \E run \in {Script(d, AnalysisOptions[1], "All Countries",
                           SliderStart(AnalysisOptions[1]), None, "")} : Show(run)

\* Each of the following is one change of one widget and the rerun of the
\* script over the cached frame that it triggers.

\* The analysis selectbox is set to a member of S; the widgets of the new
\* branch start at their defaults.
SelectAnalysisFrom(S) ==
    /\ pc \in {"done", "KeyError"}
    /\ \E a \in S :
         \E run \in {Script(df, a, selected_country, SliderStart(a),
                     ShownBrand(df, a, selected_country, SliderStart(a), None),
                     TypeStart(a))} : Show(run)
    /\ UNCHANGED <<uploaded_file, df>>

\* The analysis selectbox as the script builds it.
SelectAnalysis == SelectAnalysisFrom(Range(AnalysisOptions))

SelectCountry ==
    /\ pc \in {"done", "KeyError"}
    /\ \E c \in Range(available_countries(df)) :
         \E run \in {Script(df, analysis, c, top_n,
                     ShownBrand(df, analysis, c, top_n, selected_brand),
                     analysis_type)} : Show(run)
    /\ UNCHANGED <<uploaded_file, df>>

MoveSlider ==
    /\ pc = "done"
    /\ \E n \in SliderValues(analysis) :
         \E run \in {Script(df, analysis, selected_country, n,
                     ShownBrand(df, analysis, selected_country, n,
                                selected_brand),
                     analysis_type)} : Show(run)
    /\ UNCHANGED <<uploaded_file, df>>

SelectBrand ==
    /\ pc = "done"
    /\ analysis = "Co-occurrence by Brand"
    /\ \E b \in BrandChoices(df, analysis, selected_country, top_n) :
         \E run \in {Script(df, analysis, selected_country, top_n, b, analysis_type)} : Show(run)
    /\ UNCHANGED <<uploaded_file, df>>

SelectType ==
    /\ pc = "done"
    /\ analysis = "Co-occurrence by Brand"
    /\ \E t \in {"Percentage", "Total Value"} :
         \E run \in {Script(df, analysis, selected_country, top_n, selected_brand, t)} : Show(run)
    /\ UNCHANGED <<uploaded_file, df>>

\* The loop of the Brand Co-occurrence branch takes the next order; after the
\* last one the script runs to its end.
CountNextOrder ==
    /\ pc = "loop"
    /\ co_occurrence_dict' =
          CountOrder(co_occurrence_dict, df_top_brands[done_orders + 1].brands,
                     top_brands)
    /\ done_orders' = done_orders + 1
    /\ pc' = IF done_orders + 1 = Len(df_top_brands) THEN "done" ELSE "loop"
    /\ UNCHANGED <<uploaded_file, df, analysis, selected_country, df_filtered,
                   top_n, brand_popularity, country_diversity_sorted,
                   brand_penetration, avg_basket_size_sorted, top_brands,
                   df_top_brands, selected_brand, analysis_type,
                   co_occurrence_df, brand_exclusivity>>

\* The page as written.  No option of its analysis selectbox draws the brand
\* selectbox or the radio, so their changes are no steps of it.
Next == Upload \/ SelectAnalysis \/ SelectCountry \/ MoveSlider \/ CountNextOrder

Spec == Init /\ [][Next]_vars

\* The branches taken one at a time, each entered with the analysis its
\* condition tests for.  A rerun depends on df and the widgets alone, so
\* these reach every state the branch has in any session.
SelectCooccurrence == SelectAnalysisFrom({"Brand Co-occurrence"})

NextCooccurrence ==
    Upload \/ SelectCooccurrence \/ SelectCountry \/ CountNextOrder

SpecCooccurrence == Init /\ [][NextCooccurrence]_vars

SelectByBrand == SelectAnalysisFrom({"Co-occurrence by Brand"})

NextByBrand ==
    Upload \/ SelectByBrand \/ SelectCountry \/ MoveSlider \/ SelectBrand
      \/ SelectType

SpecByBrand == Init /\ [][NextByBrand]_vars

SelectExclusivity == SelectAnalysisFrom({"Brand Exclusivity"})

NextExclusivity == Upload \/ SelectExclusivity \/ SelectCountry \/ MoveSlider

SpecExclusivity == Init /\ [][NextExclusivity]_vars

\* ------------------------------------------------------------ properties
\* The positions of the orders of view whose brands include every member of S.
OrdersWith(view, S) == {i \in DOMAIN view : S \subseteq Range(view[i].brands)}

\* The brands of a view.
BrandsOf(view) == UNION {Range(view[i].brands) : i \in DOMAIN view}

Min(a, b) == IF a < b THEN a ELSE b

InCooccurrence == analysis = "Brand Co-occurrence" /\ pc \in {"loop", "done"}

\* C1: Brand Co-occurrence: after any number of orders of the pair-counting
\* loop, the matrix is symmetric over the top brands and its diagonal is zero.
CooccurrenceSymmetric ==
    InCooccurrence =>
        \A a \in Range(top_brands) :
            /\ co_occurrence_dict[a][a] = 0
            /\ \A b \in Range(top_brands) :
                  co_occurrence_dict[a][b] = co_occurrence_dict[b][a]

\* C1 witness: the loop stands between two orders with a pair counted.
CooccurrenceMidLoop ==
    /\ analysis = "Brand Co-occurrence"
    /\ pc = "loop"
    /\ done_orders >= 1
    /\ \E a \in Range(top_brands), b \in Range(top_brands) :
          co_occurrence_dict[a][b] > 0

\* Whether top is the n most popular brands of view: min(n, brands) of them,
\* none less popular than a brand left out.
IsMostPopular(top, n, view) ==
    /\ Cardinality(Range(top)) = Len(top)
    /\ Range(top) \subseteq BrandsOf(view)
    /\ Len(top) = Min(n, Cardinality(BrandsOf(view)))
    /\ \A a \in Range(top) :
          \A b \in BrandsOf(view) \ Range(top) :
             Cardinality(OrdersWith(view, {a})) >=
                Cardinality(OrdersWith(view, {b}))

\* Whether every cell of two distinct top brands holds the number of orders
\* of the filtered view with both of them.
CellsCountOrders ==
    /\ DOMAIN co_occurrence_dict = Range(top_brands)
    /\ \A a \in Range(top_brands) :
          /\ DOMAIN co_occurrence_dict[a] = Range(top_brands)
          /\ \A b \in Range(top_brands) \ {a} :
                co_occurrence_dict[a][b] =
                   Cardinality(OrdersWith(df_filtered, {a, b}))

CooccurrenceDone == analysis = "Brand Co-occurrence" /\ pc = "done"

\* C10 as stated: the matrix is over the topN most popular brands for the
\* requested topN (any position of the page's top-N sliders), and each cell
\* of two distinct brands counts the filtered orders holding both.
CooccurrenceOverRequestedTopN ==
    CooccurrenceDone =>
        /\ \A n \in SliderMin..SliderMax :
              IsMostPopular(top_brands, n, df_filtered)
        /\ CellsCountOrders

\* C10 as amended: the matrix is over the 20 most popular brands of the
\* filtered view, whatever top N is wanted, and each cell of two distinct
\* brands counts the filtered orders holding both.
CooccurrenceOverTopTwenty ==
    CooccurrenceDone =>
        /\ IsMostPopular(top_brands, TopBrandsLimit, df_filtered)
        /\ CellsCountOrders

\* C10 witness: more than 20 brands, a counted pair, and an order with one
\* brand inside the top set and one outside it.
CooccurrenceCut ==
    /\ CooccurrenceDone
    /\ Cardinality(BrandsOf(df_filtered)) > TopBrandsLimit
    /\ \E a \in Range(top_brands), b \in Range(top_brands) :
          co_occurrence_dict[a][b] > 0
    /\ \E i \in DOMAIN df_filtered :
          /\ Cardinality(Range(df_filtered[i].brands) \cap Range(top_brands)) = 1
          /\ Range(df_filtered[i].brands) \ Range(top_brands) # {}

\* C2: whatever option of the analysis selectbox is chosen, the run raises
\* nothing and runs one of the analyses.
EveryOptionRuns ==
    pc # "no_file" => pc # "KeyError" /\ analysis \in analysis_explanations

ExclusivityDone == analysis = "Brand Exclusivity" /\ pc = "done"

\* The orders of view whose brand set is {b}.
OrdersOfOnly(view, b) == {i \in DOMAIN view : Range(view[i].brands) = {b}}

\* C3: the Brand Exclusivity value of a brand is the number of filtered
\* orders of that brand alone over the number of all filtered orders, times
\* 100 as a percentage.
ExclusivityOverAllOrders ==
    ExclusivityDone =>
        \A k \in DOMAIN brand_exclusivity :
            LET b == brand_exclusivity[k][1]
                only == Cardinality(OrdersOfOnly(df_filtered, b))
            IN brand_exclusivity[k][2] \in
                  {Frac(only, Len(df_filtered)),
                   Frac(only * 100, Len(df_filtered))}

PenetrationDone == analysis = "Brand Penetration" /\ pc = "done"

\* C4: the Brand Penetration cell of country c and brand b is the number of
\* c's orders with b over the number of c's orders, 0 where there is none.
PenetrationPerOrder ==
    PenetrationDone =>
        /\ DOMAIN brand_penetration =
              {df_filtered[i].shipCountryCode : i \in DOMAIN df_filtered}
        /\ \A c \in DOMAIN brand_penetration :
              /\ DOMAIN brand_penetration[c] = BrandsOf(df_filtered)
              /\ \A b \in DOMAIN brand_penetration[c] :
                    brand_penetration[c][b] =
                       Frac(Cardinality(OrdersWith(RowsOf(df_filtered, c), {b})),
                            Len(RowsOf(df_filtered, c)))

\* The count Brand Popularity gives brand b in view.
PopularityCount(view, b) ==
    LET vc == value_counts(Explode(view))
    IN vc[CHOOSE k \in DOMAIN vc : vc[k][1] = b][2]

\* C5: the Brand Exclusivity value of a brand, and the number of single-brand
\* orders it stands for, are at most the Brand Popularity count of that brand
\* in the same filtered view.
ExclusivityAtMostPopularity ==
    ExclusivityDone =>
        \A k \in DOMAIN brand_exclusivity :
            LET value == brand_exclusivity[k][2]
                popularity == PopularityCount(df_filtered, brand_exclusivity[k][1])
                singles == Cardinality({i \in DOMAIN df_filtered :
                                          Len(df_filtered[i].brands) = 1})
            IN /\ value.num <= popularity * value.den
               /\ value.num * singles <= popularity * value.den

\* C5 witness: an exclusivity value of a brand that is also bought together
\* with another brand.
ExclusivityShared ==
    /\ ExclusivityDone
    /\ \E k \in DOMAIN brand_exclusivity :
          PopularityCount(df_filtered, brand_exclusivity[k][1]) >
             Cardinality(OrdersOfOnly(df_filtered, brand_exclusivity[k][1]))

ByBrandDone == analysis = "Co-occurrence by Brand" /\ pc = "done"

\* C6: Co-occurrence by Brand lists only brands other than the selected one
\* that share an order with it, each once with the number of filtered orders
\* holding both, by descending count, and at most topN of them.
ByBrandTopN ==
    ByBrandDone =>
        /\ \A k \in DOMAIN co_occurrence_df :
              /\ co_occurrence_df[k].Brand # selected_brand
              /\ co_occurrence_df[k].Count >= 1
              /\ co_occurrence_df[k].Count =
                    Cardinality(OrdersWith(df_filtered,
                                   {selected_brand, co_occurrence_df[k].Brand}))
              /\ \A j \in DOMAIN co_occurrence_df :
                    j # k => co_occurrence_df[j].Brand # co_occurrence_df[k].Brand
              /\ k > 1 => co_occurrence_df[k - 1].Count >= co_occurrence_df[k].Count
        /\ Len(co_occurrence_df) <= top_n

PopularityDone == analysis = "Brand Popularity" /\ pc = "done"

\* C7: Brand Popularity is the topN brands by the number of orders holding
\* them, by descending count and, among equal counts, ascending label.
PopularityByCountThenLabel ==
    PopularityDone =>
        /\ IsMostPopular(Labels(brand_popularity), top_n, df_filtered)
        /\ \A k \in DOMAIN brand_popularity :
              /\ brand_popularity[k][2] =
                    Cardinality(OrdersWith(df_filtered, {brand_popularity[k][1]}))
              /\ k > 1 =>
                    \/ brand_popularity[k - 1][2] > brand_popularity[k][2]
                    \/ /\ brand_popularity[k - 1][2] = brand_popularity[k][2]
                       /\ StrLess(brand_popularity[k - 1][1],
                                  brand_popularity[k][1])

\* C8: the brands of a loaded row are the trimmed entries of its brands
\* string, each once.
LoadedBrandsTrimmedOnce ==
    pc # "no_file" =>
        \A i \in DOMAIN df :
            LET names == {Strip(e) : e \in Range(Split(uploaded_file[i].brands))}
            IN /\ Range(df[i].brands) = names
               /\ Len(df[i].brands) = Cardinality(names)

\* The order dates of a frame.
Days(dfv) == {dfv[i].orderDate : i \in DOMAIN dfv}

\* C9: for every date range, the filtered view is the orders of the selected
\* country (all orders for "All Countries") dated within the range, both ends
\* included.
FilteredByCountryAndDates ==
    pc # "no_file" =>
        \A start \in Days(df), end \in Days(df) :
            start <= end =>
                df_filtered =
                   SelectSeq(df,
                      LAMBDA r :
                         /\ selected_country # "All Countries" =>
                               r.shipCountryCode = selected_country
                         /\ start <= r.orderDate
                         /\ r.orderDate <= end)

====
